---------------------------- MODULE Spec2Model ----------------------------
(***************************************************************************)
(* A model of the Data-Preprocessing-Pipeline repository:                  *)
(*                                                                         *)
(*   src/DataPreprocessingPipeline.py  data_preprocessing_pipeline,        *)
(*                                     handle_missing_values,              *)
(*                                     handle_outliers_iqr                 *)
(*   src/Preprocessing-api/process.py  POST /csv_to_excel_with_description/*)
(*                                                                         *)
(* Numbers.  The code computes in float64.  The model computes in exact    *)
(* real arithmetic: a number is NaN or (n/d)*sqrt(k) with k squarefree, so *)
(* means, quantiles and variances are exact rationals and the standard     *)
(* deviation is an exact surd.  Rounding of float64 is not modelled.       *)
(*                                                                         *)
(* Frames.  A frame is what pandas.read_csv hands to the pipeline (lines   *)
(* 62 and 67 of DataPreprocessingPipeline.py): a RangeIndex, columns of    *)
(* dtype float64 (cells may be NaN), int64 (no NaN), object (text, cells   *)
(* may be missing, at least one present) or bool (no missing cell).        *)
(***************************************************************************)
EXTENDS Integers, Sequences, FiniteSets, TLC

(***************************************************************************)
(* Bounds of the model.                                                    *)
(***************************************************************************)
\* Largest number of rows of an input frame.
MaxRows == 5

(***************************************************************************)
(* Exact arithmetic on NaN and on numbers (n/d)*sqrt(k).                   *)
(***************************************************************************)
RECURSIVE GCD(_, _)
GCD(a, b) == IF b = 0 THEN a ELSE GCD(b, a % b)

Abs(i) == IF i < 0 THEN -i ELSE i

LCM(a, b) == (a \div GCD(a, b)) * b

NaN == [nan |-> TRUE, n |-> 0, d |-> 1, k |-> 1]

\* (n/d)*sqrt(k) in lowest terms, d > 0; zero is 0/1*sqrt(1).
Norm(n, d, k) ==
    IF n = 0 THEN [nan |-> FALSE, n |-> 0, d |-> 1, k |-> 1]
    ELSE LET g == GCD(Abs(n), d)
         IN  [nan |-> FALSE, n |-> n \div g, d |-> d \div g, k |-> k]

Num(i) == Norm(i, 1, 1)

Zero == Num(0)

One == Num(1)

\* a + b, for a and b of one column (the same k, or zero).
Add(a, b) ==
    IF a.nan \/ b.nan THEN NaN
    ELSE IF a.n = 0 THEN b
    ELSE IF b.n = 0 THEN a
    ELSE LET l == LCM(a.d, b.d)
         IN  Norm(a.n * (l \div a.d) + b.n * (l \div b.d), l, a.k)

Neg(a) == IF a.nan THEN NaN ELSE [a EXCEPT !.n = -a.n]

Sub(a, b) == Add(a, Neg(b))

\* a * (p/q), q > 0.
Scale(a, p, q) ==
    IF a.nan THEN NaN
    ELSE LET g1 == GCD(Abs(a.n), q)
             g2 == GCD(Abs(p), a.d)
         IN  Norm((a.n \div g1) * (p \div g2), (a.d \div g2) * (q \div g1), a.k)

\* a < b as IEEE compares: false when either is NaN.
Less(a, b) ==
    /\ ~a.nan
    /\ ~b.nan
    /\ LET g == GCD(a.d, b.d)
       IN  a.n * (b.d \div g) < b.n * (a.d \div g)

\* a * a, a rational number: n*n*k / (d*d), k cancelled against d first.
Sq(a) ==
    IF a.nan THEN NaN
    ELSE LET g1 == GCD(a.k, a.d)
             g2 == GCD(a.k \div g1, a.d)
         IN  Norm(a.n * a.n * ((a.k \div g1) \div g2),
                  (a.d \div g1) * (a.d \div g2), 1)

\* Some b with b*b > N, found by doubling.
RECURSIVE RootBound(_, _)
RootBound(N, b) == IF b * b > N THEN b ELSE RootBound(N, 2 * b)

\* The largest m with m*m dividing N (N > 0).
SquarePart(N) ==
    LET S == {m \in 1..RootBound(N, 1) : N % (m * m) = 0}
    IN  CHOOSE m \in S : \A x \in S : x <= m

\* sqrt(r) of a rational r >= 0.
Sqrt(r) ==
    IF r.nan THEN NaN
    ELSE IF r.n = 0 THEN Zero
    ELSE LET mp == SquarePart(r.n)
             mq == SquarePart(r.d)
             kp == r.n \div (mp * mp)
             kq == r.d \div (mq * mq)
         IN  Norm(mp, mq * kq, kp * kq)

\* a / s, s > 0.
Div(a, s) ==
    IF a.nan \/ s.nan THEN NaN
    ELSE IF a.n = 0 THEN Zero
    ELSE LET g  == GCD(a.k, s.k)
             g1 == GCD(Abs(a.n), s.n)
             g2 == GCD(s.d, a.d)
         IN  Norm((a.n \div g1) * (s.d \div g2),
                  (a.d \div g2) * (s.n \div g1) * (s.k \div g),
                  (a.k \div g) * (s.k \div g))

(***************************************************************************)
(* Series statistics, as pandas computes them (missing cells are skipped). *)
(***************************************************************************)
NotNaN(s) == SelectSeq(s, LAMBDA x : ~x.nan)

RECURSIVE Sum(_)
Sum(s) == IF Len(s) = 0 THEN Zero ELSE Add(Head(s), Sum(Tail(s)))

\* Series.mean(): the arithmetic mean of the cells present, NaN if none is.
Mean(s) ==
    LET v == NotNaN(s)
    IN  IF Len(v) = 0 THEN NaN ELSE Scale(Sum(v), 1, Len(v))

\* s with x inserted before the first element greater than x (s ascending).
RECURSIVE Insert(_, _)
Insert(x, s) ==
    IF Len(s) = 0 THEN <<x>>
    ELSE IF Less(x, Head(s)) THEN <<x>> \o s
    ELSE <<Head(s)>> \o Insert(x, Tail(s))

RECURSIVE Sorted(_)
Sorted(s) == IF Len(s) = 0 THEN <<>> ELSE Insert(Head(s), Sorted(Tail(s)))

\* Series.quantile(num/den), interpolation 'linear': with v the cells present
\* in ascending order and h = (num/den)*(len(v)-1), the value at position h,
\* interpolated between its two neighbours when h is no integer.
Quantile(s, num, den) ==
    LET v  == Sorted(NotNaN(s))
        h  == num * (Len(v) - 1)
        lo == h \div den
        r  == h % den
    IN  IF Len(v) = 0 THEN NaN
        ELSE IF r = 0 THEN v[lo + 1]
        ELSE Add(v[lo + 1], Scale(Sub(v[lo + 2], v[lo + 1]), r, den))

\* The threshold 1.5 of the pipeline's outlier stage, as a fraction.
PipelineThreshold == [n |-> 3, d |-> 2]

\* Q1, Q3, IQR and the two bounds of one column for a threshold t.
IQRBounds(s, t) ==
    LET Q1  == Quantile(s, 1, 4)
        Q3  == Quantile(s, 3, 4)
        IQR == Sub(Q3, Q1)
    IN  [lower_bound |-> Sub(Q1, Scale(IQR, t.n, t.d)),
         upper_bound |-> Add(Q3, Scale(IQR, t.n, t.d))]

\* (x < lower_bound) | (x > upper_bound)
OutOfBounds(x, b) == Less(x, b.lower_bound) \/ Less(b.upper_bound, x)

\* WhereOutlier replacing only the cells above the upper bound.
WhereOutlier_UpperOnly(s, b, m) ==
    [i \in 1..Len(s) |-> IF Less(b.upper_bound, s[i]) THEN m ELSE s[i]]

\* np.where(out of bounds, mean, column)
WhereOutlier(s, b, m) ==
    [i \in 1..Len(s) |-> IF OutOfBounds(s[i], b) THEN m ELSE s[i]]

(***************************************************************************)
(* Frames.                                                                 *)
(***************************************************************************)
\* A missing cell of an object column (None / NaN).
NONE == "<NA>"

\* Text values, in the order pandas sorts them.
Categories == <<"a", "b">>

Rank(v) == CHOOSE i \in 1..Len(Categories) : Categories[i] = v

RangeIndex(n) == [i \in 1..n |-> i - 1]

NRows(frame) == Len(frame.index)

\* DtypesOf with 'int' taking the bool columns too.
DtypesOf_IntTakesBool(alias) ==
    CASE alias = "float"  -> {"float64"}
      [] alias = "int"    -> {"int64", "bool"}
      [] alias = "object" -> {"object"}
      [] OTHER            -> {}

\* The dtypes a select_dtypes alias stands for.
DtypesOf(alias) ==
    CASE alias = "float"  -> {"float64"}
      [] alias = "int"    -> {"int64"}
      [] alias = "object" -> {"object"}
      [] OTHER            -> {}

\* frame.select_dtypes(include=aliases).columns
SelectDtypes(frame, aliases) ==
    SelectSeq(frame.columns,
              LAMBDA c : \E a \in aliases : frame.dtype[c] \in DtypesOf(a))

Range(s) == {s[i] : i \in 1..Len(s)}

\* frame[cols]
SubFrame(frame, cols) ==
    [index   |-> frame.index,
     columns |-> cols,
     dtype   |-> [c \in Range(cols) |-> frame.dtype[c]],
     cells   |-> [c \in Range(cols) |-> frame.cells[c]]]

\* frame[cols] = value, value a frame: each column is aligned on the index
\* (a label of frame that value lacks gets a missing cell) and takes
\* value's dtype.
SetItem(frame, cols, value) ==
    LET Pos(l)  == CHOOSE j \in 1..NRows(value) : value.index[j] = l
        Has(l)  == \E j \in 1..NRows(value) : value.index[j] = l
        Hole(c) == IF value.dtype[c] = "object" THEN NONE ELSE NaN
    IN  [frame EXCEPT
           !.dtype = [c \in DOMAIN frame.dtype |->
                        IF c \in Range(cols) THEN value.dtype[c] ELSE @[c]],
           !.cells = [c \in DOMAIN frame.cells |->
                        IF c \in Range(cols)
                        THEN [i \in 1..NRows(frame) |->
                                IF Has(frame.index[i])
                                THEN value.cells[c][Pos(frame.index[i])]
                                ELSE Hole(c)]
                        ELSE @[c]]]

\* frame[cols] = array, array a numpy array of floats: by position.
SetItemArray(frame, cols, array) ==
    [frame EXCEPT
       !.dtype = [c \in DOMAIN frame.dtype |->
                    IF c \in Range(cols) THEN "float64" ELSE @[c]],
       !.cells = [c \in DOMAIN frame.cells |->
                    IF c \in Range(cols) THEN array[c] ELSE @[c]]]

(***************************************************************************)
(* handle_missing_values: sklearn's KNNImputer() with its defaults         *)
(* (n_neighbors = 5, weights = 'uniform', metric = 'nan_euclidean').       *)
(***************************************************************************)
\* KNNImputer's default n_neighbors.
KNeighbors == 5

Min(a, b) == IF a < b THEN a ELSE b

\* nan_euclidean distance of rows r and s, squared: the squared differences
\* over the columns present in both rows, scaled by (all columns / columns
\* present in both); NaN when the rows share no column.
Dist2(sub, r, s) ==
    LET both == SelectSeq(sub.columns,
                          LAMBDA c : ~sub.cells[c][r].nan /\ ~sub.cells[c][s].nan)
        sq   == [j \in 1..Len(both) |->
                   Sq(Sub(sub.cells[both[j]][r], sub.cells[both[j]][s]))]
    IN  IF Len(both) = 0 THEN NaN
        ELSE Scale(Sum(sq), Len(sub.columns), Len(both))

\* a is nearer than b; a NaN distance is the farthest.
Nearer(a, b) == ~a.nan /\ (b.nan \/ Less(a, b))

\* The value KNNImputer gives the missing cell of row r in column c: the
\* mean of column c over the nearest min(KNeighbors, donors) rows that have
\* column c (the donors), leaving out the donors at NaN distance; the mean
\* of the column when every donor is at NaN distance.
KNNValue(sub, r, c) ==
    LET rows   == [i \in 1..NRows(sub) |-> i]
        donors == SelectSeq(rows, LAMBDA s : ~sub.cells[c][s].nan)
        k      == Min(KNeighbors, Len(donors))
        near   == IF k = Len(donors) THEN Range(donors)
                  ELSE CHOOSE D \in SUBSET Range(donors) :
                         /\ Cardinality(D) = k
                         /\ \A d \in D, e \in Range(donors) \ D :
                              ~Nearer(Dist2(sub, r, e), Dist2(sub, r, d))
        used   == SelectSeq(donors,
                            LAMBDA s : s \in near /\ ~Dist2(sub, r, s).nan)
    IN  IF Len(used) = 0 THEN Mean(sub.cells[c])
        ELSE Mean([j \in 1..Len(used) |-> sub.cells[c][used[j]]])

\* imputer.fit_transform(data) rejects a frame without columns, and drops a
\* column with no value at all, so that pd.DataFrame(..., columns=data.columns)
\* is given one column too few and raises.
handle_missing_values_raises(sub) ==
    \/ Len(sub.columns) = 0
    \/ \E c \in Range(sub.columns) : Len(NotNaN(sub.cells[c])) = 0

\* handle_missing_values returning its frame on the index 1..n.
handle_missing_values_OneBased(sub) ==
    [index   |-> [i \in 1..NRows(sub) |-> i],
     columns |-> sub.columns,
     dtype   |-> [c \in Range(sub.columns) |-> "float64"],
     cells   |-> [c \in Range(sub.columns) |->
                    [i \in 1..NRows(sub) |->
                       IF sub.cells[c][i].nan THEN KNNValue(sub, i, c)
                       ELSE sub.cells[c][i]]]]

\* The frame handle_missing_values returns: the columns of data as floats,
\* every missing cell imputed, on a new RangeIndex.
handle_missing_values(sub) ==
    [index   |-> RangeIndex(NRows(sub)),
     columns |-> sub.columns,
     dtype   |-> [c \in Range(sub.columns) |-> "float64"],
     cells   |-> [c \in Range(sub.columns) |->
                    [i \in 1..NRows(sub) |->
                       IF sub.cells[c][i].nan THEN KNNValue(sub, i, c)
                       ELSE sub.cells[c][i]]]]

(***************************************************************************)
(* Categorical fill: frame.fillna(frame.mode().iloc[0]).                   *)
(***************************************************************************)
Count(s, v) == Cardinality({i \in 1..Len(s) : s[i] = v})

\* ModeOf taking the last of the most frequent values.
ModeOf_LastOfTies(s) ==
    LET present == Range(s) \ {NONE}
        top     == {v \in present : \A w \in present : Count(s, w) <= Count(s, v)}
    IN  IF present = {} THEN NONE
        ELSE CHOOSE v \in top : \A w \in top : Rank(w) <= Rank(v)

\* Series.mode()[0]: the most frequent value present, the first in sorted
\* order among the most frequent; missing when no value is present.
ModeOf(s) ==
    LET present == Range(s) \ {NONE}
        top     == {v \in present : \A w \in present : Count(s, w) <= Count(s, v)}
    IN  IF present = {} THEN NONE
        ELSE CHOOSE v \in top : \A w \in top : Rank(v) <= Rank(w)

\* frame.mode() has no row when no column has a mode; .iloc[0] then raises
\* IndexError.
ModeHasNoRow(sub) ==
    \A c \in Range(sub.columns) : ModeOf(sub.cells[c]) = NONE

\* frame.fillna(row): each missing cell takes its column's entry of row,
\* unless that entry is itself missing.
FillNa(sub, row) ==
    [sub EXCEPT !.cells = [c \in DOMAIN sub.cells |->
        [i \in 1..NRows(sub) |->
           IF sub.cells[c][i] = NONE /\ row[c] # NONE THEN row[c]
           ELSE sub.cells[c][i]]]]

ModeRow(sub) == [c \in Range(sub.columns) |-> ModeOf(sub.cells[c])]

(***************************************************************************)
(* StandardScaler().fit_transform.                                         *)
(***************************************************************************)
\* The population variance of the cells present.
Var(s) ==
    LET v == NotNaN(s)
        m == Mean(s)
    IN  IF Len(v) = 0 THEN NaN
        ELSE Scale(Sum([i \in 1..Len(v) |-> Sq(Sub(v[i], m))]), 1, Len(v))

\* ScaleOf dividing by the variance instead of the standard deviation.
ScaleOf_Variance(var) == IF var.nan \/ var.n = 0 THEN One ELSE var

\* scale_: the standard deviation, 1 for a constant column.
ScaleOf(var) == IF var.nan \/ var.n = 0 THEN One ELSE Sqrt(var)

ScalerFit(s) == [mean_ |-> Mean(s), var_ |-> Var(s), scale_ |-> ScaleOf(Var(s))]

ScalerTransform(s, fit) ==
    [i \in 1..Len(s) |-> Div(Sub(s[i], fit.mean_), fit.scale_)]

(***************************************************************************)
(* handle_outliers_iqr(data, threshold).                                   *)
(***************************************************************************)
\* Lines 52-57: lower_bound and upper_bound, one entry per column.
FrameBounds(frame, threshold) ==
    [c \in Range(frame.columns) |-> IQRBounds(frame.cells[c], threshold)]

\* AnyOutOfBounds with .all(axis=1) for .any(axis=1).
AnyOutOfBounds_All(frame, b, i) ==
    \A c \in Range(frame.columns) : OutOfBounds(frame.cells[c][i], b[c])

\* ((data < lower_bound) | (data > upper_bound)).any(axis=1), for row i.
AnyOutOfBounds(frame, b, i) ==
    \E c \in Range(frame.columns) : OutOfBounds(frame.cells[c][i], b[c])

\* frame[keep], keep a boolean mask over the rows.
BooleanIndex(frame, keep) ==
    LET rows == SelectSeq([i \in 1..NRows(frame) |-> i], LAMBDA i : keep[i])
    IN  [frame EXCEPT
           !.index = [j \in 1..Len(rows) |-> frame.index[rows[j]]],
           !.cells = [c \in DOMAIN frame.cells |->
                        [j \in 1..Len(rows) |-> frame.cells[c][rows[j]]]]]

handle_outliers_iqr(frame, threshold) ==
    LET b == FrameBounds(frame, threshold)
    IN  BooleanIndex(frame,
                     [i \in 1..NRows(frame) |-> ~AnyOutOfBounds(frame, b, i)])

(***************************************************************************)
(* The input frames.                                                       *)
(***************************************************************************)
ColumnNames == <<"c1", "c2", "c3", "c4">>

\* The dtypes of the columns of a frame, in column order.
Schemas ==
    { <<"float64">>,
      <<"float64", "float64">>,
      <<"int64", "float64">>,
      <<"int64", "object">>,
      <<"object">>,
      <<"object", "float64">>,
      <<"bool", "float64", "object">>,
      <<"int64", "float64", "object", "bool">> }

FloatCells == {NaN, Num(0), Num(1)}

IntCells == {Num(0), Num(1)}

TextCells == Range(Categories) \cup {NONE}

\* Every column of n cells of a dtype.
AllColumns(t, n) ==
    CASE t = "float64" -> [1..n -> FloatCells]
      [] t = "int64"   -> [1..n -> IntCells]
      [] t = "object"  -> {s \in [1..n -> TextCells] : \E i \in 1..n : s[i] # NONE}
      [] t = "bool"    -> [1..n -> BOOLEAN]

\* A few columns of n cells of a dtype: 1, 2, .., n-1, 100 and 1, NaN, 3, ..
\* for floats; 1, 2, .., n and 9, 0, 0, .. for ints; a, a, b, .., b, missing
\* and b, b, .. for text.
SomeColumns(t, n) ==
    CASE t = "float64" ->
           { [i \in 1..n |-> IF i = n THEN Num(100) ELSE Num(i)],
             [i \in 1..n |-> IF i = 2 THEN NaN ELSE Num(i)] }
      [] t = "int64" ->
           { [i \in 1..n |-> Num(i)],
             [i \in 1..n |-> IF i = 1 THEN Num(9) ELSE Num(0)] }
      [] t = "object" ->
           { [i \in 1..n |-> IF i = n /\ n > 1 THEN NONE
                             ELSE IF i <= 2 THEN "a" ELSE "b"],
             [i \in 1..n |-> "b"] }
      [] t = "bool" ->
           { [i \in 1..n |-> i % 2 = 0] }

\* The first column of a frame ranges over every column of its dtype, the
\* second over a few, the further ones over one.
ColumnPool(schema, n, j) ==
    IF j > Len(schema) THEN {<<>>}
    ELSE IF j = 1 THEN AllColumns(schema[j], n)
    ELSE IF j = 2 THEN SomeColumns(schema[j], n)
    ELSE {CHOOSE col \in SomeColumns(schema[j], n) : TRUE}

\* What read_csv returns: the columns on a RangeIndex.
MakeFrame(schema, n, cols) ==
    LET names == SubSeq(ColumnNames, 1, Len(schema))
    IN  [index   |-> RangeIndex(n),
         columns |-> names,
         dtype   |-> [c \in Range(names) |->
                        schema[CHOOSE j \in 1..Len(names) : names[j] = c]],
         cells   |-> [c \in Range(names) |->
                        cols[CHOOSE j \in 1..Len(names) : names[j] = c]]]

\* The thresholds handle_outliers_iqr is called with (1.5 is its default).
Thresholds == {[n |-> 3, d |-> 2], [n |-> 1, d |-> 1], [n |-> 0, d |-> 1]}

(***************************************************************************)
(* State.                                                                  *)
(***************************************************************************)
VARIABLES
    data,                  \* the frame data_preprocessing_pipeline works on
    pc,                    \* where the call stands
    numeric_features,      \* Index of the numeric columns
    categorical_features,  \* Index of the object columns
    bounds,                \* lower_bound, upper_bound and mean of each feature
    scaler,                \* the fitted StandardScaler, per feature
    stages,                \* the stages executed by the call, in order
    run,                   \* 1 for the first call, 2 for a call on its result
    first,                 \* the frame the first call was given
    input,                 \* the frame this call was given
    after,                 \* the frame after each stage executed, in order
    filtered,              \* what handle_outliers_iqr returned, and for what
    request,               \* the upload of the HTTP request
    api_pc,                \* where csv_to_excel_with_description stands
    steps,                 \* the processing steps the request executed
    workbook,              \* the sheets written to the ExcelWriter so far
    raised,                \* the messages of the exceptions raised in the try
    response               \* the response of the request

pipeline_vars ==
    <<data, pc, numeric_features, categorical_features, bounds, scaler,
      stages, run, first, input, after, filtered>>

api_vars == <<request, api_pc, steps, workbook, raised, response>>

vars == <<pipeline_vars, api_vars>>

NoFrame == [index |-> <<>>, columns |-> <<>>, dtype |-> <<>>, cells |-> <<>>]

NoRequest == [filename |-> <<>>, body |-> "none"]

NoResponse == [status |-> 0, detail |-> <<>>, body |-> <<>>, disposition |-> <<>>]

ApiIdle ==
    /\ request = NoRequest
    /\ api_pc = "idle"
    /\ steps = <<>>
    /\ workbook = <<>>
    /\ raised = <<>>
    /\ response = NoResponse

NoFiltered == [threshold |-> [n |-> 0, d |-> 1], result |-> NoFrame]

\* data = pd.read_csv("data.csv")
Init ==
    /\ \E schema \in Schemas, n \in 1..MaxRows :
         \E k1 \in ColumnPool(schema, n, 1), k2 \in ColumnPool(schema, n, 2),
            k3 \in ColumnPool(schema, n, 3), k4 \in ColumnPool(schema, n, 4) :
           data = MakeFrame(schema, n, <<k1, k2, k3, k4>>)
    /\ pc = "start"
    /\ numeric_features = <<>>
    /\ categorical_features = <<>>
    /\ bounds = <<>>
    /\ scaler = <<>>
    /\ stages = <<>>
    /\ run = 1
    /\ first = data
    /\ input = data
    /\ after = <<>>
    /\ filtered = NoFiltered
    /\ ApiIdle

(***************************************************************************)
(* data_preprocessing_pipeline(data), stage by stage.                      *)
(***************************************************************************)
\* Lines 15-16: the two select_dtypes calls.
Classify ==
    /\ pc = "start"
    /\ numeric_features' = SelectDtypes(data, {"float", "int"})
    /\ categorical_features' = SelectDtypes(data, {"object"})
    /\ stages' = Append(stages, "classify")
    /\ pc' = "classified"
    /\ after' = Append(after, data)
    /\ UNCHANGED <<data, bounds, scaler, run, first, input, filtered, api_vars>>

\* Line 19: data[numeric_features] = handle_missing_values(data[numeric_features])
ImputeNumeric ==
    /\ pc = "classified"
    /\ ~handle_missing_values_raises(SubFrame(data, numeric_features))
    /\ data' = SetItem(data, numeric_features,
                       handle_missing_values(SubFrame(data, numeric_features)))
    /\ stages' = Append(stages, "impute")
    /\ pc' = "imputed"
    /\ after' = Append(after, data')
    /\ UNCHANGED <<numeric_features, categorical_features, bounds, scaler, run,
                   first, input, filtered, api_vars>>

\* Line 19, when handle_missing_values raises ValueError.
ImputeNumericRaises ==
    /\ pc = "classified"
    /\ handle_missing_values_raises(SubFrame(data, numeric_features))
    /\ pc' = "raised"
    /\ UNCHANGED <<data, numeric_features, categorical_features, bounds, scaler,
                   stages, run, first, input, after, filtered, api_vars>>

\* Line 22: the object columns, missing cells filled with the mode.  Without
\* object columns a pandas whose mode() keeps the frame's index fills nothing.
FillCategorical ==
    /\ pc = "imputed"
    /\ LET sub == SubFrame(data, categorical_features)
       IN  /\ Len(categorical_features) = 0 \/ ~ModeHasNoRow(sub)
           /\ data' = SetItem(data, categorical_features, FillNa(sub, ModeRow(sub)))
    /\ stages' = Append(stages, "fill")
    /\ pc' = "filled"
    /\ after' = Append(after, data')
    /\ UNCHANGED <<numeric_features, categorical_features, bounds, scaler, run,
                   first, input, filtered, api_vars>>

\* Line 22, when mode() has no row and .iloc[0] raises IndexError.
FillCategoricalRaises ==
    /\ pc = "imputed"
    /\ ModeHasNoRow(SubFrame(data, categorical_features))
    /\ pc' = "raised"
    /\ UNCHANGED <<data, numeric_features, categorical_features, bounds, scaler,
                   stages, run, first, input, after, filtered, api_vars>>

\* FeatureBounds computed on the frame the call was given, before imputation.
FeatureBounds_FromInput(frame, feature) ==
    LET b == IQRBounds(input.cells[feature], PipelineThreshold)
    IN  [lower_bound |-> b.lower_bound, upper_bound |-> b.upper_bound,
         mean |-> Mean(input.cells[feature])]

\* Lines 29-33 and the mean of line 35, for one feature.
FeatureBounds(frame, feature) ==
    LET b == IQRBounds(frame.cells[feature], PipelineThreshold)
    IN  [lower_bound |-> b.lower_bound, upper_bound |-> b.upper_bound,
         mean |-> Mean(frame.cells[feature])]

\* ReplaceFeature substituting the mean of the cells within the bounds.
ReplaceFeature_MeanOfInliers(frame, feature) ==
    LET b      == FeatureBounds(frame, feature)
        column == frame.cells[feature]
        m      == Mean(SelectSeq(column, LAMBDA x : ~OutOfBounds(x, b)))
    IN  [frame EXCEPT !.cells[feature] = WhereOutlier(column, b, m),
                      !.dtype[feature] = "float64"]

\* One iteration of the loop of lines 28-35, for one feature.
ReplaceFeature(frame, feature) ==
    LET b == FeatureBounds(frame, feature)
    IN  [frame EXCEPT
           !.cells[feature] = WhereOutlier(frame.cells[feature], b, b.mean),
           !.dtype[feature] = "float64"]

\* The loop of lines 28-35 over features.
RECURSIVE ReplaceLoop(_, _)
ReplaceLoop(frame, features) ==
    IF Len(features) = 0 THEN frame
    ELSE ReplaceLoop(ReplaceFeature(frame, Head(features)), Tail(features))

\* Lines 28-35.
ReplaceOutliers ==
    /\ pc = "filled"
    /\ data' = ReplaceLoop(data, numeric_features)
    /\ bounds' = [f \in Range(numeric_features) |-> FeatureBounds(data, f)]
    /\ stages' = Append(stages, "outliers")
    /\ pc' = "replaced"
    /\ after' = Append(after, data')
    /\ UNCHANGED <<numeric_features, categorical_features, scaler, run, first,
                   input, filtered, api_vars>>

\* Lines 39-42: fit the scaler, transform, return data.
Standardize ==
    /\ pc = "replaced"
    /\ scaler' = [f \in Range(numeric_features) |-> ScalerFit(data.cells[f])]
    /\ data' = SetItemArray(data, numeric_features,
                  [f \in Range(numeric_features) |->
                     ScalerTransform(data.cells[f], ScalerFit(data.cells[f]))])
    /\ stages' = Append(stages, "standardize")
    /\ pc' = "returned"
    /\ after' = Append(after, data')
    /\ UNCHANGED <<numeric_features, categorical_features, bounds, run, first,
                   input, filtered, api_vars>>

\* data_preprocessing_pipeline called on what the first call returned.
CallAgain ==
    /\ pc = "returned"
    /\ run = 1
    /\ run' = 2
    /\ pc' = "start"
    /\ input' = data
    /\ after' = <<>>
    /\ stages' = <<>>
    /\ numeric_features' = <<>>
    /\ categorical_features' = <<>>
    /\ bounds' = <<>>
    /\ scaler' = <<>>
    /\ UNCHANGED <<data, first, filtered, api_vars>>

\* handle_outliers_iqr(data, threshold) on a frame of numeric columns.
CallHandleOutliersIqr ==
    /\ pc = "start"
    /\ run = 1
    /\ \A c \in Range(data.columns) : data.dtype[c] \in {"float64", "int64"}
    /\ \E threshold \in Thresholds :
         filtered' = [threshold |-> threshold,
                      result |-> handle_outliers_iqr(data, threshold)]
    /\ pc' = "filter_returned"
    /\ UNCHANGED <<data, numeric_features, categorical_features, bounds, scaler,
                   stages, run, first, input, after, api_vars>>

Next ==
    \/ Classify
    \/ ImputeNumeric
    \/ ImputeNumericRaises
    \/ FillCategorical
    \/ FillCategoricalRaises
    \/ ReplaceOutliers
    \/ Standardize
    \/ CallAgain
    \/ CallHandleOutliersIqr

Spec == Init /\ [][Next]_vars

(***************************************************************************)
(* POST /csv_to_excel_with_description/ (process.py, lines 148-183).       *)
(* A file name is the sequence of its characters.                          *)
(***************************************************************************)
\* str.endswith
EndsWith(str, suffix) ==
    /\ Len(str) >= Len(suffix)
    /\ SubSeq(str, Len(str) - Len(suffix) + 1, Len(str)) = suffix

DotCsv == <<".", "c", "s", "v">>

\* str.rsplit('.', 1)[0]: what precedes the last dot, all of str if none.
BeforeLastDot(str) ==
    IF \E i \in 1..Len(str) : str[i] = "."
    THEN LET last == CHOOSE i \in 1..Len(str) :
                        str[i] = "." /\ \A j \in (i + 1)..Len(str) : str[j] # "."
         IN  SubSeq(str, 1, last - 1)
    ELSE str

Suffix == <<"_", "w", "i", "t", "h", "_", "s", "u", "m", "m", "a", "r", "y",
            "_", "m", "i", "s", "s", "i", "n", "g", "_", "v", "a", "l", "u",
            "e", "s", "_", "a", "n", "d", "_", "o", "u", "t", "l", "i", "e",
            "r", "s", ".", "x", "l", "s", "x">>

\* Line 171.
ExcelFilename(filename) == BeforeLastDot(filename) \o Suffix

Filenames ==
    { <<"s", "a", "l", "e", "s", ".", "c", "s", "v">>,
      <<"r", "e", "p", "o", "r", "t", ".", "t", "x", "t">>,
      <<"a", ".", "b", ".", "c", "s", "v">>,
      <<".", "c", "s", "v">>,
      <<"c", "s", "v">>,
      <<"a", ".", "C", "S", "V">>,
      <<"a", ".", "c", "s", "v", ".", "g", "z">>,
      <<"a", ".", "c", "s", "v", "x">> }

\* The uploaded bytes: a CSV text, bytes that are no UTF-8, no line at all.
Bodies == {"csv", "not_utf8", "empty"}

Requests == [filename : Filenames, body : Bodies]

\* Messages of the exceptions the environment raises (I/O, report sheets).
ErrorMessages == {"disk error", "bad sheet"}

\* What line 155 does with the bytes read: the message of the exception
\* contents.decode('utf-8') or pd.read_csv raises, or "ok".
ParseOutcome(body) ==
    CASE body = "csv"      -> "ok"
      [] body = "not_utf8" -> "'utf-8' codec can't decode"
      [] body = "empty"    -> "No columns to parse from file"

\* The processManager calls of lines 162-165, in order.
SheetFunctions ==
    <<"create_data_sheet", "create_summary_sheet",
      "create_missing_values_graph", "create_outlier_graphs">>

\* A processManager call returns ("ok") or raises an exception with a message.
SheetOutcomes == {"ok"} \cup ErrorMessages

ApiInit ==
    /\ request \in Requests
    /\ api_pc = "received"
    /\ steps = <<>>
    /\ workbook = <<>>
    /\ raised = <<>>
    /\ response = NoResponse
    /\ data = NoFrame
    /\ pc = "idle"
    /\ numeric_features = <<>>
    /\ categorical_features = <<>>
    /\ bounds = <<>>
    /\ scaler = <<>>
    /\ stages = <<>>
    /\ run = 0
    /\ first = NoFrame
    /\ input = NoFrame
    /\ after = <<>>
    /\ filtered = NoFiltered

\* RejectFilename with the check inside the try block.
RejectFilename_InsideTry ==
    /\ api_pc = "received"
    /\ ~EndsWith(request.filename, DotCsv)
    /\ raised' = Append(raised, "Only CSV files are allowed")
    /\ api_pc' = "except"
    /\ UNCHANGED <<request, steps, workbook, response, pipeline_vars>>

\* Lines 150-151: raise HTTPException(400), before the try.
RejectFilename ==
    /\ api_pc = "received"
    /\ ~EndsWith(request.filename, DotCsv)
    /\ response' = [status |-> 400,
                    detail |-> <<"Only CSV files are allowed">>,
                    body |-> <<>>, disposition |-> <<>>]
    /\ api_pc' = "done"
    /\ UNCHANGED <<request, steps, workbook, raised, pipeline_vars>>

\* Line 150, the name ends in .csv: enter the try.
EnterTry ==
    /\ api_pc = "received"
    /\ EndsWith(request.filename, DotCsv)
    /\ api_pc' = "try"
    /\ UNCHANGED <<request, steps, workbook, raised, response, pipeline_vars>>

\* Line 154: contents = await file.read(); it may raise.
ReadFile ==
    /\ api_pc = "try"
    /\ steps' = Append(steps, "read")
    /\ \/ api_pc' = "read" /\ raised' = raised
       \/ \E m \in ErrorMessages :
            api_pc' = "except" /\ raised' = Append(raised, m)
    /\ UNCHANGED <<request, workbook, response, pipeline_vars>>

\* Line 155: decode and parse; lines 158-161: open the writer.
ParseCsv ==
    /\ api_pc = "read"
    /\ steps' = Append(steps, "parse")
    /\ IF ParseOutcome(request.body) = "ok"
       THEN api_pc' = "writer" /\ raised' = raised
       ELSE api_pc' = "except"
            /\ raised' = Append(raised, ParseOutcome(request.body))
    /\ UNCHANGED <<request, workbook, response, pipeline_vars>>

\* Lines 162-165: the next processManager call writes its sheet or raises
\* (the writer is then closed on what was written and the exception goes on).
WriteSheet ==
    /\ api_pc = "writer"
    /\ Len(workbook) < Len(SheetFunctions)
    /\ LET f == SheetFunctions[Len(workbook) + 1]
       IN  /\ steps' = Append(steps, f)
           /\ \E o \in SheetOutcomes :
                IF o = "ok"
                THEN /\ workbook' = Append(workbook, f)
                     /\ api_pc' = "writer"
                     /\ raised' = raised
                ELSE /\ workbook' = workbook
                     /\ api_pc' = "except"
                     /\ raised' = Append(raised, o)
    /\ UNCHANGED <<request, response, pipeline_vars>>

\* Lines 161-180: the with block ends, the file is rewound and returned.
Respond200 ==
    /\ api_pc = "writer"
    /\ Len(workbook) = Len(SheetFunctions)
    /\ response' = [status |-> 200, detail |-> <<>>, body |-> workbook,
                    disposition |-> ExcelFilename(request.filename)]
    /\ api_pc' = "done"
    /\ UNCHANGED <<request, steps, workbook, raised, pipeline_vars>>

\* ExceptHandler answering with what the writer holds.
ExceptHandler_PartialResult ==
    /\ api_pc = "except"
    /\ response' = [status |-> 200, detail |-> <<>>, body |-> workbook,
                    disposition |-> ExcelFilename(request.filename)]
    /\ api_pc' = "done"
    /\ UNCHANGED <<request, steps, workbook, raised, pipeline_vars>>

\* Lines 182-183: except Exception as e: raise HTTPException(500, ...).
ExceptHandler ==
    /\ api_pc = "except"
    /\ response' = [status |-> 500,
                    detail |-> <<"An error occurred: ", raised[Len(raised)]>>,
                    body |-> <<>>, disposition |-> <<>>]
    /\ api_pc' = "done"
    /\ UNCHANGED <<request, steps, workbook, raised, pipeline_vars>>

ApiNext ==
    \/ RejectFilename
    \/ EnterTry
    \/ ReadFile
    \/ ParseCsv
    \/ WriteSheet
    \/ Respond200
    \/ ExceptHandler

ApiSpec == ApiInit /\ [][ApiNext]_vars

(***************************************************************************)
(* Properties of data_preprocessing_pipeline (checked under Spec).         *)
(***************************************************************************)
StageOrder == <<"classify", "impute", "fill", "outliers", "standardize">>

\* The column 1, 2, 3, 4, 100 and what the outlier stage makes of it.
ExampleColumn == <<Num(1), Num(2), Num(3), Num(4), Num(100)>>

ExampleReplaced == <<Num(1), Num(2), Num(3), Num(4), Num(22)>>

\* C1: after the outlier stage, a cell of a numeric column holds the mean of
\* the column as it was before the stage (all cells, outliers included) if
\* its value was strictly below Q1 - 1.5*IQR or strictly above Q3 + 1.5*IQR
\* of that column, and its old value otherwise; 1, 2, 3, 4, 100 becomes
\* 1, 2, 3, 4, 22.
C1_OutlierReplacement ==
    pc = "replaced" =>
      \A f \in Range(numeric_features) :
        LET old  == after[3].cells[f]
            new  == data.cells[f]
            Q1   == Quantile(old, 1, 4)
            Q3   == Quantile(old, 3, 4)
            IQR  == Sub(Q3, Q1)
            low  == Sub(Q1, Scale(IQR, 3, 2))
            high == Add(Q3, Scale(IQR, 3, 2))
            mean == Scale(Sum(old), 1, Len(old))
        IN  /\ Len(new) = Len(old)
            /\ \A i \in 1..Len(old) :
                 new[i] = IF Less(old[i], low) \/ Less(high, old[i])
                          THEN mean ELSE old[i]
            /\ old = ExampleColumn => new = ExampleReplaced

C1_Witness ==
    /\ pc = "replaced"
    /\ \E f \in Range(numeric_features) :
         after[3].cells[f] = ExampleColumn /\ data.cells[f] = ExampleReplaced

WithinBounds(x, b) == ~Less(x, b.lower_bound) /\ ~Less(b.upper_bound, x)

\* C10 as claimed: after the outlier stage every value of every numeric
\* column lies within the bounds the stage computed for the column.
C10_AllWithinBounds ==
    pc = "replaced" =>
      \A f \in Range(numeric_features) :
        \A i \in 1..NRows(data) : WithinBounds(data.cells[f][i], bounds[f])

\* C10, amended: after the outlier stage every value of every numeric column
\* lies within the bounds the stage computed for the column or is the mean
\* the stage substituted for a value that was out of bounds.
C10_WithinBoundsOrMean ==
    pc = "replaced" =>
      \A f \in Range(numeric_features) :
        \A i \in 1..NRows(data) :
          \/ WithinBounds(data.cells[f][i], bounds[f])
          \/ /\ data.cells[f][i] = bounds[f].mean
             /\ ~WithinBounds(after[3].cells[f][i], bounds[f])

C10_Witness ==
    /\ pc = "replaced"
    /\ \E f \in Range(numeric_features) :
         \E i \in 1..NRows(data) :
           /\ ~WithinBounds(data.cells[f][i], bounds[f])
           /\ data.cells[f][i] = bounds[f].mean

Classified == pc \in {"classified", "imputed", "filled", "replaced", "returned", "raised"}

InIndex(c, features) == c \in Range(features)

\* C4 as claimed: every column of the frame is in exactly one of
\* numeric_features and categorical_features.
C4_Partition ==
    Classified =>
      \A c \in Range(input.columns) :
        InIndex(c, numeric_features) # InIndex(c, categorical_features)

\* C4, amended: no column is in both numeric_features and
\* categorical_features; a column is in numeric_features exactly if its dtype
\* is float64 or int64 and in categorical_features exactly if its dtype is
\* object, so a column of another dtype (bool) is in neither.
C4_ClassificationByDtype ==
    Classified =>
      \A c \in Range(input.columns) :
        /\ ~(InIndex(c, numeric_features) /\ InIndex(c, categorical_features))
        /\ InIndex(c, numeric_features) <=> input.dtype[c] \in {"float64", "int64"}
        /\ InIndex(c, categorical_features) <=> input.dtype[c] = "object"

C4_Witness ==
    /\ pc = "classified"
    /\ \E c \in Range(input.columns) :
         /\ input.dtype[c] = "bool"
         /\ ~InIndex(c, numeric_features)
         /\ ~InIndex(c, categorical_features)
    /\ numeric_features # <<>>
    /\ categorical_features # <<>>

\* m is the most frequent value present in s, the first in sorted order
\* among the most frequent.
IsMode(m, s) ==
    /\ m # NONE
    /\ m \in Range(s)
    /\ \A w \in Range(s) \ {NONE} :
         \/ Count(s, w) < Count(s, m)
         \/ Count(s, w) = Count(s, m) /\ Rank(m) <= Rank(w)

\* C5: after the categorical fill, a cell of an object column that was
\* missing holds the mode of its column (the most frequent value present,
\* the first in sorted order on ties) and every other cell holds its old
\* value; a, a, b, missing becomes a, a, b, a.
C5_ModeFill ==
    pc = "filled" =>
      \A c \in Range(categorical_features) :
        LET old == after[2].cells[c]
            new == data.cells[c]
        IN  /\ Len(new) = Len(old)
            /\ \A i \in 1..Len(old) :
                 IF old[i] = NONE THEN IsMode(new[i], old) ELSE new[i] = old[i]
            /\ old = <<"a", "a", "b", NONE>> => new = <<"a", "a", "b", "a">>

C5_Witness ==
    /\ pc = "filled"
    /\ \E c \in Range(categorical_features) :
         /\ after[2].cells[c] = <<"a", "a", "b", NONE>>
         /\ data.cells[c] = <<"a", "a", "b", "a">>

IsPrefix(s, t) == Len(s) <= Len(t) /\ s = SubSeq(t, 1, Len(s))

\* C2 as claimed: every run executes the five stages, once each, in order.
C2_EveryRunAllStages ==
    pc \in {"returned", "raised"} => stages = StageOrder

\* C2, amended: the stages a run has executed are always the first ones of
\* classify, impute, fill, outliers, standardize, once each and in that
\* order; a run that returns has executed all five, a run that raises
\* stopped in the imputation or in the categorical fill; the outlier bounds
\* and means are those of the columns as the imputation left them, and the
\* scaler is fit on, and applied to, the columns as the outlier stage left
\* them.
C2_StagesInOrder ==
    /\ IsPrefix(stages, StageOrder)
    /\ Len(after) = Len(stages)
    /\ pc = "returned" => stages = StageOrder
    /\ pc = "raised" => Len(stages) \in {1, 2}
    /\ Len(stages) >= 4 =>
         \A f \in Range(numeric_features) :
           LET col == after[2].cells[f]
               Q1  == Quantile(col, 1, 4)
               Q3  == Quantile(col, 3, 4)
           IN  /\ bounds[f].lower_bound = Sub(Q1, Scale(Sub(Q3, Q1), 3, 2))
               /\ bounds[f].upper_bound = Add(Q3, Scale(Sub(Q3, Q1), 3, 2))
               /\ bounds[f].mean = Mean(col)
    /\ Len(stages) = 5 =>
         \A f \in Range(numeric_features) :
           LET col == after[4].cells[f]
           IN  /\ scaler[f].mean_ = Mean(col)
               /\ scaler[f].var_ = Var(col)
               /\ \A i \in 1..Len(col) :
                    data.cells[f][i] = Div(Sub(col[i], scaler[f].mean_), scaler[f].scale_)

C2_Witness ==
    /\ pc = "returned"
    /\ run = 1
    /\ stages = StageOrder
    /\ \E f \in Range(numeric_features) :
         /\ \E i \in 1..NRows(input) : input.cells[f][i].nan
         /\ bounds[f] # FeatureBounds(input, f)
         /\ after[4].cells[f] # after[3].cells[f]
         /\ scaler[f].mean_ # Mean(after[3].cells[f])

\* C3: handle_outliers_iqr(data, threshold) returns the rows of data in which
\* no column holds a value below Q1 - threshold*IQR or above
\* Q3 + threshold*IQR of its column, with their values and in their order;
\* a row with one such value is left out whatever its other columns hold.
C3_RowFilter ==
    pc = "filter_returned" =>
      LET t      == filtered.threshold
          R      == filtered.result
          Q1     == [c \in Range(data.columns) |-> Quantile(data.cells[c], 1, 4)]
          Q3     == [c \in Range(data.columns) |-> Quantile(data.cells[c], 3, 4)]
          low    == [c \in Range(data.columns) |->
                       Sub(Q1[c], Scale(Sub(Q3[c], Q1[c]), t.n, t.d))]
          high   == [c \in Range(data.columns) |->
                       Add(Q3[c], Scale(Sub(Q3[c], Q1[c]), t.n, t.d))]
          Out(i) == \E c \in Range(data.columns) :
                       \/ Less(data.cells[c][i], low[c])
                       \/ Less(high[c], data.cells[c][i])
          kept   == {i \in 1..NRows(data) : ~Out(i)}
      IN  /\ R.columns = data.columns
          /\ Len(R.index) = Cardinality(kept)
          /\ \A j \in 1..Len(R.index) :
               /\ R.index[j] + 1 \in kept
               /\ j > 1 => R.index[j - 1] < R.index[j]
               /\ \A c \in Range(data.columns) :
                    /\ Len(R.cells[c]) = Len(R.index)
                    /\ R.cells[c][j] = data.cells[c][R.index[j] + 1]

C3_Witness ==
    /\ pc = "filter_returned"
    /\ filtered.threshold = PipelineThreshold
    /\ Len(data.columns) = 2
    /\ Len(filtered.result.index) >= 2
    /\ \E i \in 1..NRows(data) :
         /\ \A j \in 1..Len(filtered.result.index) : filtered.result.index[j] # i - 1
         /\ \E c \in Range(data.columns) :
              /\ ~data.cells[c][i].nan
              /\ WithinBounds(data.cells[c][i],
                              IQRBounds(data.cells[c], filtered.threshold))

\* The numeric columns of frame hold no missing value and no value outside
\* their IQR bounds.
Clean(frame) ==
    \A c \in Range(frame.columns) :
      frame.dtype[c] \in {"float64", "int64"} =>
        /\ \A i \in 1..NRows(frame) : ~frame.cells[c][i].nan
        /\ LET b == IQRBounds(frame.cells[c], PipelineThreshold)
           IN  \A i \in 1..NRows(frame) : WithinBounds(frame.cells[c][i], b)

\* C8: when the numeric columns of the frame given to the pipeline hold no
\* missing value and no value outside their IQR bounds, every numeric cell
\* holds its input value after the imputation, after the categorical fill
\* and after the outlier stage.
C8_CleanStagesNoOp ==
    (Len(after) >= 2 /\ Clean(input)) =>
      \A j \in 2..Min(4, Len(after)) :
        \A f \in Range(numeric_features) :
          after[j].cells[f] = input.cells[f]

C8_Witness ==
    /\ pc = "returned"
    /\ run = 1
    /\ Clean(input)
    /\ Len(numeric_features) >= 2
    /\ \A f \in Range(numeric_features) :
         /\ after[4].cells[f] = input.cells[f]
         /\ data.cells[f] # input.cells[f]

\* C9: when the numeric columns of the frame given to the first call hold no
\* missing value and no value outside their IQR bounds, the call on what the
\* first call returned imputes nothing, replaces nothing and returns the
\* numeric values the first call returned.
C9_Idempotent ==
    (run = 2 /\ pc = "returned" /\ Clean(first)) =>
      \A f \in Range(numeric_features) :
        /\ after[2].cells[f] = input.cells[f]
        /\ after[4].cells[f] = input.cells[f]
        /\ data.cells[f] = input.cells[f]

C9_Witness ==
    /\ run = 2
    /\ pc = "returned"
    /\ Clean(first)
    /\ \E f \in Range(numeric_features) :
         /\ input.cells[f] # first.cells[f]
         /\ data.cells[f] = input.cells[f]
         /\ \E i \in 1..NRows(data) : data.cells[f][i].k > 1

(***************************************************************************)
(* Properties of the endpoint (checked under ApiSpec).                     *)
(***************************************************************************)
\* The last four characters of name are . c s v
NamedCsv(name) ==
    /\ Len(name) >= 4
    /\ name[Len(name) - 3] = "."
    /\ name[Len(name) - 2] = "c"
    /\ name[Len(name) - 1] = "s"
    /\ name[Len(name)] = "v"

\* C6: a request whose file name does not end in .csv is answered 400 with a
\* detail, and nothing else happens to it: no step of the processing runs,
\* no sheet is written, no exception reaches the handler of the try, and
\* its status is never 500 or 200.
C6_RejectedBeforeProcessing ==
    (api_pc # "idle" /\ ~NamedCsv(request.filename)) =>
      /\ steps = <<>>
      /\ workbook = <<>>
      /\ raised = <<>>
      /\ api_pc \in {"received", "done"}
      /\ response.status \in {0, 400}
      /\ api_pc = "done" =>
           /\ response.status = 400
           /\ response.detail # <<>>
           /\ response.body = <<>>

C6_Witness ==
    /\ api_pc = "done"
    /\ request.filename = <<"r", "e", "p", "o", "r", "t", ".", "t", "x", "t">>
    /\ response.status = 400

NoDuplicates(s) == \A i, j \in 1..Len(s) : s[i] = s[j] => i = j

\* C7: a request whose file name ends in .csv ends in 200 with the four
\* sheets, every step having run once and nothing raised, or in 500 with no
\* sheet in its body and with the message of the one exception raised in its
\* detail; no step runs twice.
C7_CaughtOnce ==
    (api_pc # "idle" /\ NamedCsv(request.filename)) =>
      /\ NoDuplicates(steps)
      /\ Len(raised) <= 1
      /\ api_pc = "except" <=> (Len(raised) = 1 /\ response.status = 0)
      /\ response.status \in {0, 200, 500}
      /\ api_pc = "done" <=> response.status # 0
      /\ response.status = 200 =>
           /\ raised = <<>>
           /\ response.body = SheetFunctions
           /\ steps = <<"read", "parse">> \o SheetFunctions
      /\ response.status = 500 =>
           /\ Len(raised) = 1
           /\ response.detail = <<"An error occurred: ", raised[1]>>
           /\ response.body = <<>>

C7_Witness ==
    /\ api_pc = "done"
    /\ response.status = 500
    /\ Len(workbook) = 2
    /\ response.body = <<>>
    /\ response.detail = <<"An error occurred: ", "bad sheet">>

=============================================================================
